---- MODULE Spec2Model ----
(***************************************************************************)
(* QuickHull (src/quickhull.py): quick_hull and its recursive helper       *)
(* find_hull, modelled as a state machine with an explicit call stack.     *)
(* A Python element of the input list is a record [kind, val]: kind is the *)
(* Python type ("tuple" or "list"), val its items.  A 2D point is a tuple  *)
(* of two integers.                                                        *)
(***************************************************************************)
EXTENDS Integers, Sequences, FiniteSets, TLC

\* ------------------------------------------------------------------ bounds
MaxCoord == 2       \* coordinates of the points range over 0..MaxCoord
MaxLen == 3         \* longest input list in any order, repeats and malformed
                    \* elements allowed
MaxSorted == 5      \* longest input list of distinct points in sorted order
RelCoord == 1       \* coordinates range over 0..RelCoord when quick_hull is
                    \* called twice
MaxLenRel == 3      \* longest first input when quick_hull is called twice

\* ---------------------------------------------------------------- elements
Pt(x, y) == [kind |-> "tuple", val |-> <<x, y>>]

Points == {Pt(x, y) : x \in 0..MaxCoord, y \in 0..MaxCoord}

RelPoints == {Pt(x, y) : x \in 0..RelCoord, y \in 0..RelCoord}

\* a tuple of the wrong arity, a list (unhashable) of the right arity
BadElements == {[kind |-> "tuple", val |-> <<0, 0, 0>>],
                [kind |-> "list", val |-> <<0, 0>>]}

Elements == Points \cup BadElements

NoPoint == [kind |-> "none", val |-> <<>>]

SeqsUpTo(S, n) == UNION {[1..k -> S] : k \in 0..n}

Range(s) == {s[i] : i \in 1..Len(s)}

Reverse(s) == [i \in 1..Len(s) |-> s[Len(s) + 1 - i]]

\* (x, y) before (x', y') in Python's tuple order
Before(p, q) == p.val[1] < q.val[1] \/ (p.val[1] = q.val[1] /\ p.val[2] < q.val[2])

RECURSIVE Sorted(_)
Sorted(S) ==
    IF S = {} THEN <<>>
    ELSE LET m == CHOOSE p \in S : \A q \in S \ {p} : Before(p, q)
         IN <<m>> \o Sorted(S \ {m})

X(p) == p.val[1]
Y(p) == p.val[2]

Abs(n) == IF n < 0 THEN -n ELSE n

\* ------------------------------------------------------- src/quickhull.py
cross_product(p1, p2, p3) ==
    (X(p2) - X(p1)) * (Y(p3) - Y(p1)) - (Y(p2) - Y(p1)) * (X(p3) - X(p1))

\* hash(e) succeeds: tuples of integers are hashable, lists are not
Hashable(e) == e.kind = "tuple"

\* Dedup keeping the last occurrence of every element instead of the first
DedupKeepsLast(s) ==
    LET Test(i) == \A j \in (i + 1)..Len(s) : s[j] # s[i]
        F[i \in 0..Len(s)] ==
          IF i = 0 THEN <<>>
          ELSE IF Test(i) THEN Append(F[i - 1], s[i]) ELSE F[i - 1]
    IN F[Len(s)]

\* list(dict.fromkeys(s)): the first occurrence of every element, in order
Dedup(s) ==
    LET F[i \in 0..Len(s)] ==
          IF i = 0 THEN <<>>
          ELSE IF \E j \in 1..(i - 1) : s[j] = s[i]
               THEN F[i - 1]
               ELSE Append(F[i - 1], s[i])
    IN F[Len(s)]

\* isinstance(point, tuple) and len(point) == 2
ValidPoint(e) == e.kind = "tuple" /\ Len(e.val) = 2

\* min(s, key=lambda p: p[0]): the first element of least x
Leftmost(s) ==
    s[CHOOSE i \in 1..Len(s) :
        /\ \A j \in 1..Len(s) : X(s[i]) <= X(s[j])
        /\ \A j \in 1..(i - 1) : X(s[j]) > X(s[i])]

\* max(s, key=lambda p: p[0]): the first element of greatest x
Rightmost(s) ==
    s[CHOOSE i \in 1..Len(s) :
        /\ \A j \in 1..Len(s) : X(s[i]) >= X(s[j])
        /\ \A j \in 1..(i - 1) : X(s[j]) < X(s[i])]

\* the points strictly left of p1->p2, in list order
UpperOf(s, p1, p2) ==
    LET Test(p) == cross_product(p1, p2, p) > 0 IN SelectSeq(s, Test)

\* the points strictly right of p1->p2, in list order
LowerOf(s, p1, p2) ==
    LET Test(p) == cross_product(p1, p2, p) < 0 IN SelectSeq(s, Test)

\* max(point_set, key=lambda p: abs(cross_product(p1, p2, p))): first maximum
Furthest(s, p1, p2) ==
    s[CHOOSE i \in 1..Len(s) :
        /\ \A j \in 1..Len(s) :
              Abs(cross_product(p1, p2, s[i])) >= Abs(cross_product(p1, p2, s[j]))
        /\ \A j \in 1..(i - 1) :
              Abs(cross_product(p1, p2, s[j])) < Abs(cross_product(p1, p2, s[i]))]

\* LeftSet with >= for >: keeps the furthest point and the points on the edge
LeftSetKeepsFurthest(s, p1, furthest) ==
    LET Test(p) == cross_product(furthest, p, p1) >= 0 IN SelectSeq(s, Test)

LeftSet(s, p1, furthest) ==
    LET Test(p) == cross_product(furthest, p, p1) > 0 IN SelectSeq(s, Test)

RightSet(s, p2, furthest) ==
    LET Test(p) == cross_product(p2, p, furthest) > 0 IN SelectSeq(s, Test)

\* ------------------------------------------------------------------- state
VARIABLES
    input,         \* the argument of quick_hull
    pc,            \* position in quick_hull
    error,         \* the exception raised, "none" if none
    points,        \* the local list `points` after deduplication
    p1, p2,        \* the seeds
    search_order,  \* the shared accumulator
    upper_hull, lower_hull,
    above_hull, below_hull,
    stack,         \* the active find_hull calls, innermost last
    ret,           \* the value returned by the find_hull call that ended last
    convex_hull,   \* the first component of the returned tuple
    run,           \* 1 in the first call of quick_hull, 2 in the second
    relation,      \* how the second call's input relates to the first's
    first          \* the outcome of the first call, once a second has begun

vars == <<input, pc, error, points, p1, p2, search_order, upper_hull,
          lower_hull, above_hull, below_hull, stack, ret, convex_hull,
          run, relation, first>>

locals == <<points, p1, p2, search_order, upper_hull, lower_hull,
            above_hull, below_hull, stack, ret, convex_hull>>

twice == <<run, relation, first>>

NoOutcome == [input |-> <<>>, pc |-> "none", error |-> "none",
              convex_hull |-> <<>>, search_order |-> <<>>]

\* the state of a call of quick_hull at its first line
Entry ==
    /\ pc = "dedup"
    /\ error = "none"
    /\ points = <<>>
    /\ p1 = NoPoint
    /\ p2 = NoPoint
    /\ search_order = <<>>
    /\ upper_hull = <<>>
    /\ lower_hull = <<>>
    /\ above_hull = <<>>
    /\ below_hull = <<>>
    /\ stack = <<>>
    /\ ret = <<>>
    /\ convex_hull = <<>>

SortedInputs ==
    LET Small == {S \in SUBSET Points : Cardinality(S) <= MaxSorted}
    IN {Sorted(S) : S \in Small} \cup {Reverse(Sorted(S)) : S \in Small}

Inputs == SeqsUpTo(Elements, MaxLen) \cup SortedInputs

Init ==
    /\ input \in Inputs
    /\ Entry
    /\ run = 1
    /\ relation = "none"
    /\ first = NoOutcome

\* ------------------------------------------------------ quick_hull, by line
\* line 41: points = list(dict.fromkeys(points))
Deduplicate ==
    /\ pc = "dedup"
    /\ IF \A i \in 1..Len(input) : Hashable(input[i])
       THEN /\ points' = Dedup(input)
            /\ pc' = "validate"
            /\ error' = error
       ELSE /\ points' = points
            /\ pc' = "raised"
            /\ error' = "TypeError"
    /\ UNCHANGED <<input, p1, p2, search_order, upper_hull, lower_hull,
                   above_hull, below_hull, stack, ret, convex_hull, twice>>

\* lines 44-45: raise ValueError unless every point is a 2-tuple
Validate ==
    /\ pc = "validate"
    /\ IF \A i \in 1..Len(points) : ValidPoint(points[i])
       THEN /\ pc' = "seed"
            /\ error' = error
       ELSE /\ pc' = "raised"
            /\ error' = "ValueError"
    /\ UNCHANGED <<input, locals, twice>>

\* lines 48-51: min() and max() raise ValueError on an empty list
SelectSeeds ==
    /\ pc = "seed"
    /\ IF points = <<>>
       THEN /\ pc' = "raised"
            /\ error' = "ValueError"
            /\ UNCHANGED <<p1, p2, search_order>>
       ELSE /\ p1' = Leftmost(points)
            /\ p2' = Rightmost(points)
            /\ search_order' = Append(Append(search_order, p1'), p2')
            /\ pc' = "partition"
            /\ error' = error
    /\ UNCHANGED <<input, points, upper_hull, lower_hull, above_hull,
                   below_hull, stack, ret, convex_hull, twice>>

\* lines 54-62
Partition ==
    /\ pc = "partition"
    /\ upper_hull' = UpperOf(points, p1, p2)
    /\ lower_hull' = LowerOf(points, p1, p2)
    /\ pc' = "call_upper"
    /\ UNCHANGED <<input, error, points, p1, p2, search_order, above_hull,
                   below_hull, stack, ret, convex_hull, twice>>

\* a fresh find_hull(search_order, point_set, a, b) activation
Frame(point_set, a, b) ==
    [point_set |-> point_set, p1 |-> a, p2 |-> b, furthest |-> NoPoint,
     left_set |-> <<>>, right_set |-> <<>>, left_hull |-> <<>>,
     pc |-> "entry"]

\* line 65, the call
CallUpper ==
    /\ pc = "call_upper"
    /\ stack' = <<Frame(upper_hull, p1, p2)>>
    /\ pc' = "in_upper"
    /\ UNCHANGED <<input, error, points, p1, p2, search_order, upper_hull,
                   lower_hull, above_hull, below_hull, ret, convex_hull, twice>>

\* line 65, the assignment, and line 66
ReturnUpper ==
    /\ pc = "in_upper"
    /\ stack = <<>>
    /\ above_hull' = Append(ret, p2)
    /\ pc' = "call_lower"
    /\ UNCHANGED <<input, error, points, p1, p2, search_order, upper_hull,
                   lower_hull, below_hull, stack, ret, convex_hull, twice>>

\* line 67, the call
CallLower ==
    /\ pc = "call_lower"
    /\ stack' = <<Frame(lower_hull, p2, p1)>>
    /\ pc' = "in_lower"
    /\ UNCHANGED <<input, error, points, p1, p2, search_order, upper_hull,
                   lower_hull, above_hull, below_hull, ret, convex_hull, twice>>

\* line 67, the assignment, and line 68
ReturnLower ==
    /\ pc = "in_lower"
    /\ stack = <<>>
    /\ below_hull' = Append(ret, p1)
    /\ pc' = "combine"
    /\ UNCHANGED <<input, error, points, p1, p2, search_order, upper_hull,
                   lower_hull, above_hull, stack, ret, convex_hull, twice>>

\* lines 71-72
Combine ==
    /\ pc = "combine"
    /\ convex_hull' = above_hull \o below_hull
    /\ pc' = "done"
    /\ UNCHANGED <<input, error, points, p1, p2, search_order, upper_hull,
                   lower_hull, above_hull, below_hull, stack, ret, twice>>

\* ------------------------------------------------------- find_hull, by line
Top == stack[Len(stack)]

Pop == SubSeq(stack, 1, Len(stack) - 1)

SetTop(f) == [stack EXCEPT ![Len(stack)] = f]

outer == <<input, pc, error, points, p1, p2, upper_hull, lower_hull,
           above_hull, below_hull, convex_hull, twice>>

\* lines 91-92: the empty base case
FindHullBase ==
    /\ stack # <<>>
    /\ Top.pc = "entry"
    /\ Top.point_set = <<>>
    /\ ret' = <<>>
    /\ stack' = Pop
    /\ UNCHANGED <<outer, search_order>>

\* lines 95-102: the furthest point, its append, the two subsets
FindHullSelect ==
    /\ stack # <<>>
    /\ Top.pc = "entry"
    /\ Top.point_set # <<>>
    /\ LET furthest == Furthest(Top.point_set, Top.p1, Top.p2) IN
         /\ search_order' = Append(search_order, furthest)
         /\ stack' = SetTop([Top EXCEPT
                !.furthest = furthest,
                !.left_set = LeftSet(Top.point_set, Top.p1, furthest),
                !.right_set = RightSet(Top.point_set, Top.p2, furthest),
                !.pc = "call_left"])
    /\ UNCHANGED <<outer, ret>>

\* FindHullCallLeft descending into the right subset instead of the left
FindHullCallsRightFirst ==
    /\ stack # <<>>
    /\ Top.pc = "call_left"
    /\ stack' = Append(SetTop([Top EXCEPT !.pc = "in_left"]),
                       Frame(Top.right_set, Top.furthest, Top.p2))
    /\ UNCHANGED <<outer, search_order, ret>>

\* line 105, the call
FindHullCallLeft ==
    /\ stack # <<>>
    /\ Top.pc = "call_left"
    /\ stack' = Append(SetTop([Top EXCEPT !.pc = "in_left"]),
                       Frame(Top.left_set, Top.p1, Top.furthest))
    /\ UNCHANGED <<outer, search_order, ret>>

\* line 105, the assignment, and line 106, the call
FindHullCallRight ==
    /\ stack # <<>>
    /\ Top.pc = "in_left"
    /\ stack' = Append(SetTop([Top EXCEPT !.pc = "in_right", !.left_hull = ret]),
                       Frame(Top.right_set, Top.furthest, Top.p2))
    /\ UNCHANGED <<outer, search_order, ret>>

\* FindHullReturn without line 109: the furthest point is left out of the hull
FindHullReturnDropsFurthest ==
    /\ stack # <<>>
    /\ Top.pc = "in_right"
    /\ ret' = Top.left_hull \o ret
    /\ stack' = Pop
    /\ UNCHANGED <<outer, search_order>>

\* line 106, the assignment, and lines 109-112
FindHullReturn ==
    /\ stack # <<>>
    /\ Top.pc = "in_right"
    /\ ret' = Append(Top.left_hull, Top.furthest) \o ret
    /\ stack' = Pop
    /\ UNCHANGED <<outer, search_order>>

Next ==
    \/ Deduplicate
    \/ Validate
    \/ SelectSeeds
    \/ Partition
    \/ CallUpper
    \/ ReturnUpper
    \/ CallLower
    \/ ReturnLower
    \/ Combine
    \/ FindHullBase
    \/ FindHullSelect
    \/ FindHullCallLeft
    \/ FindHullCallRight
    \/ FindHullReturn

Spec == Init /\ [][Next]_vars

\* ------------------------------------------- quick_hull called a second time
Terminal == pc \in {"done", "raised"}

Outcome == [input |-> input, pc |-> pc, error |-> error,
            convex_hull |-> convex_hull, search_order |-> search_order]

\* every call starts from fresh locals (line 38: search_order = [])
EnterAgain(arg, rel) ==
    /\ input' = arg
    /\ pc' = "dedup"
    /\ error' = "none"
    /\ points' = <<>>
    /\ p1' = NoPoint
    /\ p2' = NoPoint
    /\ search_order' = <<>>
    /\ upper_hull' = <<>>
    /\ lower_hull' = <<>>
    /\ above_hull' = <<>>
    /\ below_hull' = <<>>
    /\ stack' = <<>>
    /\ ret' = <<>>
    /\ convex_hull' = <<>>
    /\ run' = 2
    /\ relation' = rel
    /\ first' = Outcome

Reorderings(s) ==
    {[i \in 1..Len(s) |-> s[f[i]]] :
        f \in {g \in [1..Len(s) -> 1..Len(s)] :
                 \A i, j \in 1..Len(s) : g[i] = g[j] => i = j}}

\* s with e put at position j
InsertAt(s, j, e) == SubSeq(s, 1, j - 1) \o <<e>> \o SubSeq(s, j, Len(s))

\* s ++ s, and s with one of its elements repeated after its first occurrence
Repetitions(s) ==
    {s \o s} \cup UNION {{InsertAt(s, j, s[i]) : j \in (i + 1)..(Len(s) + 1)} :
                            i \in 1..Len(s)}

\* the caller calls quick_hull again with the same points in another order
CallPermuted ==
    /\ run = 1
    /\ Terminal
    /\ \E q \in Reorderings(input) : EnterAgain(q, "permuted")

\* the caller calls quick_hull again with some of the points repeated
CallRepeated ==
    /\ run = 1
    /\ Terminal
    /\ \E q \in Repetitions(input) : EnterAgain(q, "repeated")

InitRel ==
    /\ input \in SeqsUpTo(RelPoints, MaxLenRel)
    /\ Entry
    /\ run = 1
    /\ relation = "none"
    /\ first = NoOutcome

NextRel == Next \/ CallPermuted \/ CallRepeated

SpecRel == InitRel /\ [][NextRel]_vars

\* ------------------------------------------------------ geometry of claims
Min(a, b) == IF a < b THEN a ELSE b
Max(a, b) == IF a > b THEN a ELSE b

\* p lies on the closed segment from a to b
OnSegment(a, b, p) ==
    /\ cross_product(a, b, p) = 0
    /\ Min(X(a), X(b)) <= X(p) /\ X(p) <= Max(X(a), X(b))
    /\ Min(Y(a), Y(b)) <= Y(p) /\ Y(p) <= Max(Y(a), Y(b))

\* p lies in the closed triangle a, b, c, which is not flat
InTriangle(a, b, c, p) ==
    /\ cross_product(a, b, c) # 0
    /\ LET d1 == cross_product(a, b, p)
           d2 == cross_product(b, c, p)
           d3 == cross_product(c, a, p)
       IN \/ d1 >= 0 /\ d2 >= 0 /\ d3 >= 0
          \/ d1 <= 0 /\ d2 <= 0 /\ d3 <= 0

\* p lies on or inside the convex hull of the finite set S (Caratheodory)
InConvexHull(p, S) ==
    \/ \E a, b \in S : OnSegment(a, b, p)
    \/ \E a, b, c \in S : InTriangle(a, b, c, p)

\* the extreme points of S: those not spanned by the others
Corners(S) == {p \in S : ~InConvexHull(p, S \ {p})}

AllValid(s) == \A i \in 1..Len(s) : ValidPoint(s[i])

NonCollinear(S) == \E a, b, c \in S : cross_product(a, b, c) # 0

\* the cyclic successor of index i in a list of n elements
Succ(i, n) == (i % n) + 1

IsPrefix(s, t) == Len(s) <= Len(t) /\ s = SubSeq(t, 1, Len(s))

\* ------------------------------------------------------------------ claims

\* C1: the hull returned by quick_hull holds exactly the corners of the
\* convex hull of the input, each exactly once: no interior point, no point
\* strictly between two others on an edge, no duplicate entry.
C1_HullIsExactlyTheCorners ==
    pc = "done" =>
        /\ Range(convex_hull) = Corners(Range(input))
        /\ Cardinality(Range(convex_hull)) = Len(convex_hull)

\* C2: for an input with at least 3 distinct points that are not all on one
\* line, no cyclically consecutive triple of the returned hull turns right
\* (the hull is in counter-clockwise order).
C2_HullIsCounterClockwise ==
    (pc = "done" /\ Cardinality(Range(input)) >= 3 /\ NonCollinear(Range(input))) =>
        LET n == Len(convex_hull) IN
        \A i \in 1..n :
            cross_product(convex_hull[i], convex_hull[Succ(i, n)],
                          convex_hull[Succ(Succ(i, n), n)]) >= 0

\* C3: for a non-empty input, every input point lies on or inside the
\* polygon (segment, point) spanned by the returned hull.
C3_HullContainsEveryInputPoint ==
    (pc = "done" /\ input # <<>>) =>
        \A i \in 1..Len(input) : InConvexHull(input[i], Range(convex_hull))

\* C4: quick_hull of the empty list returns normally, with an empty hull
\* and an empty search order.
C4_EmptyInputReturnsEmpty ==
    (input = <<>> /\ Terminal) =>
        pc = "done" /\ convex_hull = <<>> /\ search_order = <<>>

\* C5: for an input whose deduplicated form is the single point p,
\* quick_hull returns the hull [p] and the search order [p].
C5_SinglePointReturnsItOnce ==
    (Terminal /\ AllValid(input) /\ Cardinality(Range(input)) = 1) =>
        /\ pc = "done"
        /\ convex_hull = <<input[1]>>
        /\ search_order = <<input[1]>>

\* C6: for an input whose deduplicated form is the two points a, b (a first),
\* quick_hull returns the hull [a, b] and a search order of exactly a and b.
C6_TwoPointsReturnInInputOrder ==
    (Terminal /\ AllValid(input) /\ Cardinality(Range(input)) = 2) =>
        /\ pc = "done"
        /\ Len(convex_hull) = 2
        /\ convex_hull[1] = input[1]
        /\ convex_hull[2] \in Range(input) \ {input[1]}
        /\ Len(search_order) = 2
        /\ Range(search_order) = Range(input)

\* C7: when an element of the input is no 2-coordinate tuple, quick_hull
\* fails, with ValueError and no other error, and the validation is its first
\* step: when it fails nothing has been deduplicated or selected.
C7_MalformedInputRaisesValueErrorFirst ==
    (~AllValid(input) /\ Terminal) =>
        /\ pc = "raised"
        /\ error = "ValueError"
        /\ points = <<>>
        /\ search_order = <<>>

\* C8: quick_hull of a permutation of P returns a hull with the same set of
\* vertices as quick_hull of P.
C8_PermutationKeepsTheVertexSet ==
    (run = 2 /\ relation = "permuted" /\ Terminal) =>
        /\ pc = first.pc
        /\ pc = "done" => Range(convex_hull) = Range(first.convex_hull)

\* C9: quick_hull of P ++ P, and of P with points repeated after their first
\* occurrence, has the outcome of quick_hull of P: the same hull and the same
\* search order (or the same error).
C9_RepeatedPointsChangeNothing ==
    (run = 2 /\ relation = "repeated" /\ Terminal) =>
        /\ pc = first.pc
        /\ error = first.error
        /\ convex_hull = first.convex_hull
        /\ search_order = first.search_order

\* C9 witness: a second call on P ++ P has returned a hull of three corners.
C9_Witness ==
    /\ run = 2
    /\ relation = "repeated"
    /\ pc = "done"
    /\ input = first.input \o first.input
    /\ Cardinality(Range(convex_hull)) >= 3

\* the furthest points of find_hull(s, a, b) and of the calls below it, each
\* before those of its two subsets, the left subset's before the right's
RECURSIVE PreOrder(_, _, _)
PreOrder(s, a, b) ==
    IF s = <<>> THEN <<>>
    ELSE LET f == Furthest(s, a, b)
         IN <<f>> \o PreOrder(LeftSet(s, a, f), a, f)
                 \o PreOrder(RightSet(s, b, f), f, b)

ExpectedSearchOrder ==
    <<p1, p2>> \o PreOrder(UpperOf(points, p1, p2), p1, p2)
               \o PreOrder(LowerOf(points, p1, p2), p2, p1)

\* C10: for an input of at least 3 points the search order is the two seeds
\* p1, p2, then the furthest points in depth-first pre-order: upper subset
\* before lower, each call's furthest point before its recursive calls, its
\* left branch in full before its right.  While quick_hull runs the search
\* order is a prefix of that sequence, and every call that has gone past its
\* selection has its furthest point in it.
C10_SearchOrderIsPreOrder ==
    (Len(input) >= 3 /\ p1 # NoPoint) =>
        /\ IsPrefix(search_order, ExpectedSearchOrder)
        /\ pc = "done" => search_order = ExpectedSearchOrder
        /\ \A k \in 1..Len(stack) :
              stack[k].pc # "entry" => stack[k].furthest \in Range(search_order)

\* C10 witness: quick_hull has returned after a find_hull call whose left and
\* right subsets were both non-empty.
C10_Witness ==
    /\ pc = "done"
    /\ Len(input) >= 3
    /\ \E a, b \in {p1, p2} :
         \E s \in {upper_hull, lower_hull} :
            /\ a # b
            /\ s # <<>>
            /\ LeftSet(s, a, Furthest(s, a, b)) # <<>>
            /\ RightSet(s, b, Furthest(s, a, b)) # <<>>
            /\ search_order = ExpectedSearchOrder

\* the point of S that is first, and the one that is last, in (x, y) order
LexMin(S) == CHOOSE p \in S : \A q \in S \ {p} : Before(p, q)
LexMax(S) == CHOOSE p \in S : \A q \in S \ {p} : Before(q, p)

\* C11: for an input of at least 3 distinct points the seeds are p1 = the
\* point of least x, of least y among those, and p2 = the point of greatest
\* x, of greatest y among those, whatever the input order; the search order
\* begins p1, p2.
C11_SeedsAreLexicographicExtremes ==
    (AllValid(input) /\ Cardinality(Range(input)) >= 3 /\ p1 # NoPoint) =>
        /\ p1 = LexMin(Range(input))
        /\ p2 = LexMax(Range(input))
        /\ IsPrefix(<<p1, p2>>, search_order)

\* an upper bound of the steps of find_hull on n points, when each of its two
\* recursive calls gets fewer than n
RECURSIVE Cost(_)
Cost(n) == IF n = 0 THEN 1 ELSE 4 + 2 * Cost(n - 1)

\* the steps an active find_hull call still has to take, its callees' apart
FrameRank(f) ==
    CASE f.pc = "entry" -> Cost(Len(f.point_set))
      [] f.pc = "call_left" -> 3 + Cost(Len(f.left_set)) + Cost(Len(f.right_set))
      [] f.pc = "in_left" -> 2 + Cost(Len(f.right_set))
      [] f.pc = "in_right" -> 1

RECURSIVE StackRank(_)
StackRank(st) ==
    IF st = <<>> THEN 0
    ELSE FrameRank(st[Len(st)]) + StackRank(SubSeq(st, 1, Len(st) - 1))

\* a natural number that bounds the steps quick_hull still has to take
Rank ==
    CASE pc = "dedup" -> 9 + 2 * Cost(Len(input))
      [] pc = "validate" -> 8 + 2 * Cost(Len(points))
      [] pc = "seed" -> 7 + 2 * Cost(Len(points))
      [] pc = "partition" -> 6 + 2 * Cost(Len(points))
      [] pc = "call_upper" -> 5 + Cost(Len(upper_hull)) + Cost(Len(lower_hull))
      [] pc = "in_upper" -> 4 + StackRank(stack) + Cost(Len(lower_hull))
      [] pc = "call_lower" -> 3 + Cost(Len(lower_hull))
      [] pc = "in_lower" -> 2 + StackRank(stack)
      [] pc = "combine" -> 1
      [] pc \in {"done", "raised"} -> 0

\* the step is a recursive call of find_hull: a call made by an active call
RecursiveCall == stack # <<>> /\ Len(stack') = Len(stack) + 1

C12_Step ==
    /\ RecursiveCall =>
          LET caller == stack'[Len(stack)]
              callee == stack'[Len(stack')]
          IN /\ Range(callee.point_set) \subseteq Range(caller.point_set)
             /\ Range(callee.point_set) # Range(caller.point_set)
             /\ Len(callee.point_set) < Len(caller.point_set)
             /\ caller.furthest \notin Range(callee.point_set)
    /\ Rank' < Rank

\* C12: every recursive call made by find_hull gets a strict subset of its
\* caller's point_set, without the caller's furthest point, and quick_hull
\* terminates: every step lowers a natural number, so that the recursion
\* reaches its empty base case and quick_hull returns or raises.
C12_RecursionShrinksAndTerminates == [][C12_Step]_vars

\* C12 witness: quick_hull has returned after a find_hull call that passed a
\* non-empty left subset on and dropped, besides its furthest point, a point
\* inside the triangle.
C12_Witness ==
    /\ pc = "done"
    /\ \E a, b \in {p1, p2} :
         \E s \in {upper_hull, lower_hull} :
            /\ a # b
            /\ s # <<>>
            /\ LeftSet(s, a, Furthest(s, a, b)) # <<>>
            /\ Len(LeftSet(s, a, Furthest(s, a, b)))
                  + Len(RightSet(s, b, Furthest(s, a, b))) + 1 < Len(s)

\* how many times p occurs in the list s
Count(p, s) == Cardinality({i \in 1..Len(s) : s[i] = p})

\* C13: when quick_hull returns, the hull and the search order hold the same
\* points the same number of times (each is a permutation of the other, so
\* they are equally long), and each of those points is an element of the
\* input.
C13_HullIsPermutationOfSearchOrder ==
    pc = "done" =>
        /\ \A p \in Range(convex_hull) \cup Range(search_order) :
              Count(p, convex_hull) = Count(p, search_order)
        /\ Len(convex_hull) = Len(search_order)
        /\ Range(convex_hull) \subseteq Range(input)

\* C13 witness: quick_hull has returned a hull of at least four points that is
\* in another order than the search order.
C13_Witness ==
    /\ pc = "done"
    /\ Len(convex_hull) >= 4
    /\ convex_hull # search_order
    /\ upper_hull # <<>>
    /\ lower_hull # <<>>

====
